---------------------------- MODULE Spec2Model ----------------------------
(***************************************************************************)
(* Model of query_rewriter/query/relaxer.py: the QueryRelaxer object (its  *)
(* RFD catalog, its query attribute list), its three catalog operations,   *)
(* and the two static helpers extend_query_ranges and similar_strings.     *)
(*                                                                         *)
(* Numbers (thresholds, floats) are kept in units of one half, so that a   *)
(* threshold of 0.5 is the integer 1 in the field "half".  A DataFrame is  *)
(* a record of its column labels and its rows in positional order; every   *)
(* row carries its index label.  The field "rid" of a catalog row is the   *)
(* identity of the RFD record, used only to state order preservation.      *)
(***************************************************************************)
EXTENDS Integers, Sequences, FiniteSets, TLC

VARIABLES query, rfds_df, data_set_df, query_attributes,
          supplied_df, lastCall, raised, returned_df, applied,
          rfd, returned_query, original, round,
          sim_threshold, sim_result

vars == <<query, rfds_df, data_set_df, query_attributes,
          supplied_df, lastCall, raised, returned_df, applied,
          rfd, returned_query, original, round,
          sim_threshold, sim_result>>

relaxerVars == <<rfds_df, supplied_df, query_attributes, returned_df, applied>>
expandVars == <<rfd, returned_query, round>>
simVars == <<sim_threshold, sim_result>>

---------------------------------------------------------------------------
(* Bounds of the model *)

MaxRows == 3
MaxKeys == 2
MaxSortCalls == 2
MaxRounds == 2
MaxWordLen == 2
MaxColumn == 2
MaxHalf == 4

---------------------------------------------------------------------------
(* Values *)

NaN == [nan |-> TRUE, half |-> 0]
Num(h) == [nan |-> FALSE, half |-> h]

IntVal(i) == [kind |-> "int", i |-> i, s |-> <<>>, items |-> <<>>]
StrVal(w) == [kind |-> "str", i |-> 0, s |-> w, items |-> <<>>]
FloatVal(h) == [kind |-> "float", i |-> h, s |-> <<>>, items |-> <<>>]
ListVal(xs) == [kind |-> "list", i |-> 0, s |-> <<>>, items |-> xs]

NoFrame == [isNone |-> TRUE, columns |-> <<>>, rows |-> <<>>]
Frame(cols, rows) == [isNone |-> FALSE, columns |-> cols, rows |-> rows]

NoList == [isNone |-> TRUE, list |-> <<>>]
Range(s) == {s[i] : i \in DOMAIN s}

QueryKeys(q) == [i \in DOMAIN q |-> q[i].key]

\* Python's int(x) on a float: truncation toward zero. x is given in halves.
IntOfHalves(h) == IF h >= 0 THEN h \div 2 ELSE -((-h) \div 2)

---------------------------------------------------------------------------
(* pandas operations used on the RFD catalog *)

ColumnSet(df) == Range(df.columns)

IsNull(row, col) == col \in DOMAIN row.th /\ row.th[col].nan

\* DataFrame.reset_index(drop=True): the index becomes 0..n-1
ResetIndex(df) ==
    Frame(df.columns, [i \in DOMAIN df.rows |-> [df.rows[i] EXCEPT !.index = i - 1]])

\* the boolean mask of dropna(subset=...), how="any": a row is kept when
\* none of the subset's cells is null
NotNaMaskAll(row, subset) ==
    subset = <<>> \/ \E i \in DOMAIN subset : ~IsNull(row, subset[i])

NotNaMask(row, subset) == \A i \in DOMAIN subset : ~IsNull(row, subset[i])

\* dropna raises KeyError for the subset labels that are no column
MissingLabelsIgnored(df, subset) == {}

MissingLabels(df, subset) == Range(subset) \ ColumnSet(df)

\* DataFrame.dropna(subset=subset)
DropNa(df, subset) ==
    IF MissingLabels(df, subset) # {}
    THEN [raised |-> "KeyError", df |-> NoFrame]
    ELSE [raised |-> "none",
          df |-> Frame(df.columns,
                       SelectSeq(df.rows, LAMBDA r : NotNaMask(r, subset)))]

\* self.rfds_df[self.rfds_df["RHS"].isin(values)].index
IsinIndexShifted(df, values) ==
    {df.rows[i].index + 1 : i \in {j \in DOMAIN df.rows : df.rows[j].RHS \in Range(values)}}

IsinIndex(df, values) ==
    {df.rows[i].index : i \in {j \in DOMAIN df.rows : df.rows[j].RHS \in Range(values)}}

\* DataFrame.drop(labels): every row whose index label is in labels goes
DropLabels(df, labels) ==
    Frame(df.columns, SelectSeq(df.rows, LAMBDA r : r.index \notin labels))

\* x.isnull().sum(axis=1) for one row, over all columns of the frame
NullCount(df, row) == Cardinality({c \in ColumnSet(df) : IsNull(row, c)})

\* DataFrame.assign(**{col: values}): an existing column is overwritten in
\* place, a new one is appended; values holds one cell per row
Assign(df, col, values) ==
    Frame(IF col \in ColumnSet(df) THEN df.columns ELSE Append(df.columns, col),
          [i \in DOMAIN df.rows |->
              [df.rows[i] EXCEPT !.th =
                  [c \in DOMAIN df.rows[i].th \cup {col} |->
                      IF c = col THEN values[i] ELSE df.rows[i].th[c]]]])

\* DataFrame.drop(col, axis=1)
DropColumn(df, col) ==
    Frame(SelectSeq(df.columns, LAMBDA c : c # col),
          [i \in DOMAIN df.rows |->
              [df.rows[i] EXCEPT !.th =
                  [c \in DOMAIN df.rows[i].th \ {col} |-> df.rows[i].th[c]]]])

\* the order sort_values puts two cells of one key column in:
\* -1 when a goes first, 1 when b goes first, 0 when they tie;
\* na_position="first" puts the nulls first whatever the direction
CellOrder(a, b, asc) ==
    IF a.nan /\ b.nan THEN 0
    ELSE IF a.nan THEN -1
    ELSE IF b.nan THEN 1
    ELSE IF a.half = b.half THEN 0
    ELSE IF (a.half < b.half) = asc THEN -1 ELSE 1

RECURSIVE RowOrder(_, _, _, _, _)
RowOrder(r1, r2, by, ascending, k) ==
    IF k > Len(by) THEN 0
    ELSE LET o == CellOrder(r1.th[by[k]], r2.th[by[k]], ascending[k])
         IN  IF o # 0 THEN o ELSE RowOrder(r1, r2, by, ascending, k + 1)

\* stable insertion of a row behind every row that does not come after it
RECURSIVE InsertRow(_, _, _, _)
InsertRow(sorted, r, by, ascending) ==
    IF sorted = <<>> THEN <<r>>
    ELSE IF RowOrder(sorted[Len(sorted)], r, by, ascending, 1) <= 0
         THEN Append(sorted, r)
         ELSE Append(InsertRow(SubSeq(sorted, 1, Len(sorted) - 1), r, by, ascending),
                     sorted[Len(sorted)])

RECURSIVE LexSort(_, _, _)
LexSort(rows, by, ascending) ==
    IF rows = <<>> THEN <<>>
    ELSE InsertRow(LexSort(SubSeq(rows, 1, Len(rows) - 1), by, ascending),
                   rows[Len(rows)], by, ascending)

\* DataFrame.sort_values(by=by, ascending=ascending, na_position="first").
\* A by that is not a list (here: None) is wrapped into a one-element list;
\* a different number of keys and directions raises ValueError; a key that
\* is no column raises KeyError.
SortValues(df, by, ascending) ==
    LET keys == IF by.isNone THEN <<"None">> ELSE by.list
    IN  IF Len(keys) # Len(ascending)
        THEN [raised |-> "ValueError", df |-> NoFrame]
        ELSE IF \E i \in DOMAIN keys : keys[i] \notin ColumnSet(df) \ {"RHS"}
        THEN [raised |-> "KeyError", df |-> NoFrame]
        ELSE [raised |-> "none",
              df |-> Frame(df.columns, LexSort(df.rows, keys, ascending))]

\* list.extend(xs): the list grows in place and the call returns None
ListExtendResult(xs, ys) == NoList

---------------------------------------------------------------------------
(* The static helpers: similar_strings and extend_query_ranges *)

Min(a, b) == IF a <= b THEN a ELSE b

\* one row of the edit distance table: cur holds D[i][0..j-1], prev is D[i-1]
RECURSIVE FillRow(_, _, _, _, _)
FillRow(prev, cur, ch, b, j) ==
    IF j > Len(b) THEN cur
    ELSE FillRow(prev,
                 Append(cur, Min(Min(prev[j + 1] + 1, cur[j] + 1),
                                 prev[j] + (IF ch = b[j] THEN 0 ELSE 1))),
                 ch, b, j + 1)

RECURSIVE LastRow(_, _, _)
LastRow(a, b, i) ==
    IF i = 0 THEN [j \in 1..(Len(b) + 1) |-> j - 1]
    ELSE FillRow(LastRow(a, b, i - 1), <<i>>, a[i], b, 1)

\* editdistance.eval(a, b): the Levenshtein distance of two strings
EditDistance(a, b) == LastRow(a, b, Len(a))[Len(b) + 1]

\* int(editdistance.eval(source, word)) <= threshold; a comparison with
\* NaN is false
WithinThresholdStrict(d, threshold) == ~threshold.nan /\ 2 * d < threshold.half

WithinThreshold(d, threshold) == ~threshold.nan /\ 2 * d <= threshold.half

\* similar_strings(source, data, col, threshold): data[mask][col].tolist().
\* Subscripting None raises TypeError, a col that is no column KeyError, and
\* editdistance.eval on a cell that is no string TypeError.
similar_strings(source, data, col, threshold) ==
    IF data.isNone THEN [raised |-> "TypeError", list |-> <<>>]
    ELSE IF col \notin ColumnSet(data) THEN [raised |-> "KeyError", list |-> <<>>]
    ELSE IF \E i \in DOMAIN data.rows : data.rows[i].cells[col].kind # "str"
    THEN [raised |-> "TypeError", list |-> <<>>]
    ELSE LET kept == SelectSeq(data.rows,
                               LAMBDA r : WithinThreshold(EditDistance(source, r.cells[col].s),
                                                          threshold))
         IN  [raised |-> "none", list |-> [i \in DOMAIN kept |-> kept[i].cells[col]]]

\* key in rfd: the RFD dict has the key "RHS" and one key per threshold
KeyInRfd(r, key) == key = "RHS" \/ key \in DOMAIN r.th

\* threshold > 0.0, false for NaN
ThresholdNonNegative(threshold) == ~threshold.nan /\ threshold.half >= 0

ThresholdPositive(threshold) == ~threshold.nan /\ threshold.half > 0

\* list(range(int(val - threshold), int(val + threshold + 1)))
ValRange(v, threshold) ==
    LET lo == IntOfHalves(2 * v - threshold.half)
        hi == IntOfHalves(2 * v + threshold.half + 2)
    IN  [k \in 1..(hi - lo) |-> IntVal(lo + k - 1)]

\* the loop of extend_query_ranges from the i-th item of the query on; the
\* query is changed in place, so an exception leaves the items already
\* replaced as they are
RECURSIVE ExtendFrom(_, _, _, _)
ExtendFrom(q, i, r, data_set) ==
    IF i > Len(q) THEN [raised |-> "none", query |-> q]
    ELSE LET key == q[i].key
             val == q[i].val
         IN  IF ~KeyInRfd(r, key) THEN ExtendFrom(q, i + 1, r, data_set)
             ELSE IF key = "RHS" THEN [raised |-> "TypeError", query |-> q]
             ELSE IF ~ThresholdPositive(r.th[key]) THEN ExtendFrom(q, i + 1, r, data_set)
             ELSE IF val.kind = "int"
             THEN ExtendFrom([q EXCEPT ![i].val = ListVal(ValRange(val.i, r.th[key]))],
                             i + 1, r, data_set)
             ELSE IF val.kind = "str"
             THEN LET simil_string == similar_strings(val.s, data_set, key, r.th[key])
                  IN  IF simil_string.raised # "none"
                      THEN [raised |-> simil_string.raised, query |-> q]
                      ELSE ExtendFrom([q EXCEPT ![i].val = ListVal(simil_string.list)],
                                      i + 1, r, data_set)
             ELSE ExtendFrom(q, i + 1, r, data_set)

extend_query_ranges(q, r, data_set) == ExtendFrom(q, 1, r, data_set)

---------------------------------------------------------------------------
(* Inputs *)

Rome == <<"R", "o", "m", "e">>
Roma == <<"R", "o", "m", "a">>
Turin == <<"T", "u", "r", "i", "n">>

\* the columns of the RFD catalog: RHS and one threshold column per attribute
CatalogColumns == <<"RHS", "age", "city">>

CatalogAttrs == Range(CatalogColumns) \ {"RHS"}

\* the attributes a query may name; "zip" is no column of the catalog
QueryAttrs == {"age", "city", "zip"}

CatalogThresholds == {NaN, Num(2)}

\* an RFD record holds a threshold for its own RHS attribute
CatalogRowValues ==
    {[RHS |-> a, th |-> t] :
        a \in CatalogAttrs,
        t \in [CatalogAttrs -> CatalogThresholds]}

RfdRecords == {r \in CatalogRowValues : ~r.th[r.RHS].nan}

SeqsUpTo(S, n) == UNION {[1..k -> S] : k \in 0..n}

\* a catalog as loaded: a RangeIndex, the records in any order
Catalogs ==
    {Frame(CatalogColumns,
           [i \in DOMAIN rs |->
               [index |-> i - 1, rid |-> i, RHS |-> rs[i].RHS, th |-> rs[i].th]]) :
        rs \in SeqsUpTo(RfdRecords, MaxRows)}

KeyLists(S) ==
    {ks \in SeqsUpTo(S, MaxKeys) : \A i, j \in DOMAIN ks : i # j => ks[i] # ks[j]}

DefaultValue(k) == IF k = "city" THEN StrVal(Rome) ELSE IntVal(30)

\* the dataset of the end-to-end scenario
ScenarioDataSet ==
    Frame(<<"age", "city">>,
          <<[index |-> 0, cells |-> [age |-> IntVal(30), city |-> StrVal(Rome)]],
            [index |-> 1, cells |-> [age |-> IntVal(31), city |-> StrVal(Roma)]],
            [index |-> 2, cells |-> [age |-> IntVal(40), city |-> StrVal(Turin)]]>>)

NoRfd == [RHS |-> "city", th |-> [a \in {} |-> NaN]]

---------------------------------------------------------------------------
(* QueryRelaxer: construction and the catalog operations *)

\* __init__
Init ==
    /\ \E ks \in KeyLists(QueryAttrs) :
          query = [i \in DOMAIN ks |-> [key |-> ks[i], val |-> DefaultValue(ks[i])]]
    /\ rfds_df \in Catalogs
    /\ supplied_df = rfds_df
    /\ data_set_df = ScenarioDataSet
    /\ query_attributes = QueryKeys(query)
    /\ lastCall = "__init__"
    /\ raised = "none"
    /\ returned_df = NoFrame
    /\ applied = {}
    /\ original = query
    /\ rfd = NoRfd
    /\ returned_query = <<>>
    /\ round = 0
    /\ sim_threshold = NaN
    /\ sim_result = <<>>

drop_query_na ==
    LET res == DropNa(rfds_df, query_attributes)
    IN  /\ lastCall' = "drop_query_na"
        /\ raised' = res.raised
        /\ IF res.raised = "none"
           THEN /\ rfds_df' = ResetIndex(res.df)
                /\ returned_df' = rfds_df'
                /\ applied' = applied \cup {"drop_query_na"}
           ELSE /\ returned_df' = NoFrame
                /\ UNCHANGED <<rfds_df, applied>>
        /\ UNCHANGED <<query, data_set_df, supplied_df, query_attributes, original>>
        /\ UNCHANGED <<expandVars, simVars>>

drop_query_rhs ==
    /\ lastCall' = "drop_query_rhs"
    /\ raised' = "none"
    /\ rfds_df' = ResetIndex(DropLabels(rfds_df, IsinIndex(rfds_df, query_attributes)))
    /\ returned_df' = rfds_df'
    /\ applied' = applied \cup {"drop_query_rhs"}
    /\ UNCHANGED <<query, data_set_df, supplied_df, query_attributes, original>>
    /\ UNCHANGED <<expandVars, simVars>>

sort_nan_query_attributes ==
    LET nan_count == "NaNs"
        assigned == Assign(rfds_df, nan_count,
                           [i \in DOMAIN rfds_df.rows |->
                               Num(2 * NullCount(rfds_df, rfds_df.rows[i]))])
        \* sorting_cols aliases self.query_attributes, which extend grows in place
        extended == query_attributes \o <<nan_count>>
        sorting_cols == ListExtendResult(query_attributes, <<nan_count>>)
        ascending == <<FALSE>> \o [i \in DOMAIN extended |-> TRUE]
        res == SortValues(assigned, sorting_cols, ascending)
    IN  /\ Len(query_attributes) < Len(query) + MaxSortCalls
        /\ lastCall' = "sort_nan_query_attributes"
        /\ query_attributes' = extended
        /\ raised' = res.raised
        /\ IF res.raised = "none"
           THEN /\ rfds_df' = DropColumn(ResetIndex(res.df), nan_count)
                /\ returned_df' = rfds_df'
           ELSE /\ rfds_df' = assigned
                /\ returned_df' = NoFrame
        /\ UNCHANGED <<query, data_set_df, supplied_df, applied, original>>
        /\ UNCHANGED <<expandVars, simVars>>

Next == drop_query_na \/ drop_query_rhs \/ sort_nan_query_attributes

Spec == Init /\ [][Next]_vars

---------------------------------------------------------------------------
(* The caller's relaxation rounds: extend_query_ranges on the held query *)

AgeValues == {IntVal(-3), IntVal(30), FloatVal(61)}

CityValues == {StrVal(Rome), ListVal(<<StrVal(Rome)>>)}

ValuesOf(k) == IF k = "city" THEN CityValues ELSE AgeValues

ExpandAttrs == {"age", "city"}

ExpandQueries ==
    UNION {{q \in [DOMAIN ks -> [key : ExpandAttrs, val : AgeValues \cup CityValues]] :
              \A i \in DOMAIN ks : q[i].key = ks[i] /\ q[i].val \in ValuesOf(ks[i])} :
           ks \in KeyLists(ExpandAttrs)}

\* NaN, -1, 0, 0.5, 1 and 2
Thresholds == {NaN, Num(-2), Num(0), Num(1), Num(2), Num(4)}

\* the RFDs handed to extend_query_ranges: thresholds for any of the attributes
ExpandRfds ==
    UNION {{[RHS |-> "price", th |-> t] : t \in [D -> Thresholds]} : D \in SUBSET ExpandAttrs}

InitHelpers ==
    /\ rfds_df = Frame(CatalogColumns, <<>>)
    /\ supplied_df = rfds_df
    /\ query_attributes = QueryKeys(query)
    /\ lastCall = "__init__"
    /\ raised = "none"
    /\ returned_df = NoFrame
    /\ applied = {}
    /\ original = query
    /\ rfd = NoRfd
    /\ returned_query = <<>>
    /\ round = 0
    /\ sim_threshold = NaN
    /\ sim_result = <<>>

InitExpand ==
    /\ query \in ExpandQueries
    /\ data_set_df \in {NoFrame, ScenarioDataSet}
    /\ InitHelpers

\* one round: QueryRelaxer.extend_query_ranges(query, r, data_set_df); the
\* dict handed in is the dict that is changed and returned
ExtendCall(rfds) ==
    \E r \in rfds :
        LET res == extend_query_ranges(query, r, data_set_df)
        IN  /\ round < MaxRounds
            /\ round' = round + 1
            /\ lastCall' = "extend_query_ranges"
            /\ rfd' = r
            /\ raised' = res.raised
            /\ query' = res.query
            /\ returned_query' = IF res.raised = "none" THEN res.query ELSE <<>>
            /\ UNCHANGED <<data_set_df, original, relaxerVars, simVars>>

NextExpand == ExtendCall(ExpandRfds)

SpecExpand == InitExpand /\ [][NextExpand]_vars

---------------------------------------------------------------------------
(* similar_strings over every small column *)

Alphabet == {"a", "b"}

Words == SeqsUpTo(Alphabet, MaxWordLen)

CityColumns ==
    {Frame(<<"city">>,
           [i \in DOMAIN ws |-> [index |-> i - 1, cells |-> [city |-> StrVal(ws[i])]]]) :
        ws \in SeqsUpTo(Words, MaxColumn)}

\* the RFDs with a positive threshold for city
CityRfds == {[RHS |-> "price", th |-> [a \in {"city"} |-> Num(h)]] : h \in 1..MaxHalf}

InitSimilar ==
    /\ \E w \in Words : query = <<[key |-> "city", val |-> StrVal(w)]>>
    /\ data_set_df \in CityColumns
    /\ InitHelpers

\* QueryRelaxer.similar_strings(source, data_set_df, "city", t)
SimilarCall ==
    \E h \in 0..MaxHalf :
        LET res == similar_strings(original[1].val.s, data_set_df, "city", Num(h))
        IN  /\ lastCall = "__init__"
            /\ lastCall' = "similar_strings"
            /\ sim_threshold' = Num(h)
            /\ raised' = res.raised
            /\ sim_result' = res.list
            /\ UNCHANGED <<query, data_set_df, original, relaxerVars, expandVars>>

ExtendTextual == lastCall = "__init__" /\ ExtendCall(CityRfds)

NextSimilar == SimilarCall \/ ExtendTextual

SpecSimilar == InitSimilar /\ [][NextSimilar]_vars

---------------------------------------------------------------------------
(* Properties of the catalog operations *)

Filters == {"drop_query_na", "drop_query_rhs"}

QueryKeySet == Range(QueryKeys(query))

\* a query attribute that is no column of the catalog supplied at construction
SchemaMismatch == \E k \in QueryKeySet : k \notin ColumnSet(supplied_df)

\* the position of the RFD record rid in rows, 0 when it is not there
PositionOf(rows, rid) ==
    IF \E i \in DOMAIN rows : rows[i].rid = rid
    THEN CHOOSE i \in DOMAIN rows : rows[i].rid = rid
    ELSE 0

\* the cells of a row under the columns cols
Cells(row, cols) == [RHS |-> row.RHS, th |-> [c \in cols \cap DOMAIN row.th |-> row.th[c]]]

\* new holds records of old only, each with its cells, in old's order
KeepsOrder(new, old) ==
    /\ \A i \in DOMAIN new :
          /\ PositionOf(old, new[i].rid) # 0
          /\ Cells(new[i], DOMAIN new[i].th) =
                Cells(old[PositionOf(old, new[i].rid)], DOMAIN new[i].th)
          /\ DOMAIN new[i].th = DOMAIN old[PositionOf(old, new[i].rid)].th
    /\ \A i, j \in DOMAIN new :
          i < j => PositionOf(old, new[i].rid) < PositionOf(old, new[j].rid)

\* C1: once drop_query_na and drop_query_rhs have both been applied, in
\* either order, no row of the working catalog has a NaN threshold for a
\* query attribute and no row's RHS is a query attribute.
C1_FilteredCatalog ==
    applied = Filters =>
        \A i \in DOMAIN rfds_df.rows :
            \A k \in QueryKeySet :
                /\ k \in DOMAIN rfds_df.rows[i].th
                /\ ~rfds_df.rows[i].th[k].nan
                /\ rfds_df.rows[i].RHS # k

\* both filters applied, some record dropped for a NaN threshold, some
\* record dropped for its RHS, some record surviving
C1_Witness ==
    /\ applied = Filters
    /\ rfds_df.rows # <<>>
    /\ \E i \in DOMAIN supplied_df.rows :
          \E k \in QueryKeySet : supplied_df.rows[i].th[k].nan
    /\ \E i \in DOMAIN supplied_df.rows : supplied_df.rows[i].RHS \in QueryKeySet

\* C6: a filter call keeps the surviving records in their relative order,
\* with their cells, and a filter that has already been applied leaves the
\* working catalog as it is when it is applied again.
C6_FiltersIdempotentOrderPreserving ==
    [][(lastCall' \in Filters /\ raised' = "none") =>
          /\ KeepsOrder(rfds_df'.rows, rfds_df.rows)
          /\ returned_df' = rfds_df'
          /\ (lastCall' \in applied => rfds_df' = rfds_df)]_vars

\* a filter applied a second time, on a catalog of which it had dropped a
\* record and kept two
C6_Witness ==
    /\ lastCall \in Filters
    /\ raised = "none"
    /\ applied = Filters
    /\ Len(rfds_df.rows) >= 2
    /\ Len(rfds_df.rows) < Len(supplied_df.rows)
    /\ rfds_df.rows[1].rid > 1

\* C8 as stated: with a query attribute that is no column of the catalog,
\* the filters raise no error and the filtered catalog is empty.
C8_MismatchYieldsEmptyCatalog ==
    (SchemaMismatch /\ lastCall \in Filters) =>
        (raised = "none" /\ rfds_df.rows = <<>>)

\* C8 amended: with a query attribute that is no column of the catalog,
\* drop_query_na raises KeyError and leaves the working catalog as it was;
\* drop_query_rhs raises no error and drops exactly the records whose RHS
\* is a query attribute.
C8_MismatchRaisesKeyError ==
    [][SchemaMismatch =>
          /\ (lastCall' = "drop_query_na" =>
                 /\ raised' = "KeyError"
                 /\ rfds_df' = rfds_df)
          /\ (lastCall' = "drop_query_rhs" =>
                 /\ raised' = "none"
                 /\ KeepsOrder(rfds_df'.rows, rfds_df.rows)
                 /\ {r.rid : r \in Range(rfds_df'.rows)} =
                       {r.rid : r \in {x \in Range(rfds_df.rows) : x.RHS \notin QueryKeySet}})]_vars

\* drop_query_na has just raised on a catalog that still holds records
C8_Witness ==
    /\ SchemaMismatch
    /\ lastCall = "drop_query_na"
    /\ raised = "KeyError"
    /\ rfds_df.rows # <<>>
    /\ "drop_query_rhs" \in applied

\* the rank of a record: the number of its NaN thresholds, then its
\* thresholds on the query attributes
NaNsOf(row) == Cardinality({c \in DOMAIN row.th \cap CatalogAttrs : row.th[c].nan})

RECURSIVE KeyOrder(_, _, _, _)
KeyOrder(r1, r2, keys, k) ==
    IF k > Len(keys) THEN 0
    ELSE LET o == CellOrder(r1.th[keys[k]], r2.th[keys[k]], TRUE)
         IN  IF o # 0 THEN o ELSE KeyOrder(r1, r2, keys, k + 1)

\* -1: r1 ranks before r2; 1: after; 0: an exact tie on the ranking key
RankOrder(r1, r2, keys) ==
    IF NaNsOf(r1) > NaNsOf(r2) THEN -1
    ELSE IF NaNsOf(r1) < NaNsOf(r2) THEN 1
    ELSE KeyOrder(r1, r2, SelectSeq(keys, LAMBDA c : c \in DOMAIN r1.th), 1)

\* C2 as stated: sort_nan_query_attributes returns the records of the
\* working catalog, none lost or added, by decreasing number of NaN
\* thresholds and then by increasing thresholds on the query attributes.
C2_SortReturnsRankedPermutation ==
    [][lastCall' = "sort_nan_query_attributes" =>
          /\ raised' = "none"
          /\ Len(returned_df'.rows) = Len(rfds_df.rows)
          /\ {r.rid : r \in Range(returned_df'.rows)} = {r.rid : r \in Range(rfds_df.rows)}
          /\ \A i, j \in DOMAIN returned_df'.rows :
                i < j => RankOrder(returned_df'.rows[i], returned_df'.rows[j],
                                   QueryKeys(query)) <= 0]_vars

\* C7 as stated: records that tie on the ranking key keep their relative
\* order, and a second sort_nan_query_attributes call returns the catalog
\* the first call returned.
C7_SortStableIdempotent ==
    [][lastCall' = "sort_nan_query_attributes" =>
          /\ raised' = "none"
          /\ \A i, j \in DOMAIN returned_df'.rows :
                (i < j /\ RankOrder(returned_df'.rows[i], returned_df'.rows[j],
                                    QueryKeys(query)) = 0)
                    => PositionOf(rfds_df.rows, returned_df'.rows[i].rid)
                          < PositionOf(rfds_df.rows, returned_df'.rows[j].rid)
          /\ (lastCall = "sort_nan_query_attributes" => returned_df' = returned_df)]_vars

\* C9 as stated: whatever calls were made, the working catalog has the
\* columns of the catalog supplied at construction and query_attributes is
\* the list of the query's keys.
C9_SchemaAndAttributesKept ==
    /\ rfds_df.columns = supplied_df.columns
    /\ query_attributes = QueryKeys(query)

---------------------------------------------------------------------------
(* Properties of extend_query_ranges and similar_strings *)

ExtendStep == lastCall' = "extend_query_ranges"

\* the ascending sequence of the integers x with v - t <= x <= v + t
IntegersWithin(v, threshold) ==
    LET xs == {x \in (v - threshold.half)..(v + threshold.half) :
                  /\ 2 * v - threshold.half <= 2 * x
                  /\ 2 * x <= 2 * v + threshold.half}
        lo == CHOOSE x \in xs : \A y \in xs : x <= y
    IN  [k \in 1..Cardinality(xs) |-> IntVal(lo + k - 1)]

\* C3 as stated: a call that returns replaces an integer value v whose
\* threshold t in the RFD is positive by the ascending sequence of all
\* integers x with v - t <= x <= v + t.
C3_NumericExpansionExact ==
    [][(ExtendStep /\ raised' = "none") =>
          \A i \in DOMAIN query :
              (/\ query[i].val.kind = "int"
               /\ query[i].key \in DOMAIN rfd'.th
               /\ ThresholdPositive(rfd'.th[query[i].key]))
                  => returned_query'[i].val =
                        ListVal(IntegersWithin(query[i].val.i, rfd'.th[query[i].key]))]_vars

\* the item of a query that extend_query_ranges has to leave alone
LeftAlone(item, r) ==
    \/ item.key \notin DOMAIN r.th
    \/ r.th[item.key].nan
    \/ r.th[item.key].half <= 0
    \/ item.val.kind \notin {"int", "str"}

\* C5: the query keeps its keys, in their order, the query returned is the
\* query as the call left it, and an attribute whose threshold is NaN, is
\* <= 0 or is not in the RFD, or whose value is neither an integer nor a
\* string, keeps its value.
C5_KeysAndUntouchedValuesKept ==
    [][ExtendStep =>
          /\ QueryKeys(query') = QueryKeys(query)
          /\ (raised' = "none" => returned_query' = query')
          /\ \A i \in DOMAIN query :
                LeftAlone(query[i], rfd') => query'[i].val = query[i].val]_vars

\* a first call that returned, expanded one attribute and left alone an
\* integer whose threshold is NaN or not positive
C5_Witness ==
    /\ lastCall = "extend_query_ranges"
    /\ round = 1
    /\ raised = "none"
    /\ \E i, j \in DOMAIN query :
          /\ original[i].val.kind = "int"
          /\ query[i].key \in DOMAIN rfd.th
          /\ ~ThresholdPositive(rfd.th[query[i].key])
          /\ returned_query[i].val = original[i].val
          /\ original[j].val.kind = "str"
          /\ returned_query[j].val.kind = "list"

\* C10 as stated: the call leaves the query handed to it as it was, and the
\* query it returns is the RFD's expansion of the original query.
C10_QueryArgumentUnchanged ==
    [][(ExtendStep /\ raised' = "none") =>
          /\ query' = query
          /\ returned_query' = extend_query_ranges(original, rfd', data_set_df).query]_vars

\* the words one insertion, deletion or substitution away from x
OneEdit(x) ==
    {SubSeq(x, 1, i - 1) \o SubSeq(x, i + 1, Len(x)) : i \in DOMAIN x}
    \cup {[x EXCEPT ![i] = c] : i \in DOMAIN x, c \in Alphabet}
    \cup {SubSeq(x, 1, i) \o <<c>> \o SubSeq(x, i + 1, Len(x)) : i \in 0..Len(x), c \in Alphabet}

\* the words at most k single-character edits away from x
RECURSIVE Ball(_, _)
Ball(x, k) ==
    IF k = 0 THEN {x}
    ELSE LET b == Ball(x, k - 1) IN b \cup UNION {OneEdit(y) : y \in b}

CityColumn == [i \in DOMAIN data_set_df.rows |-> data_set_df.rows[i].cells.city]

\* the cells of the city column at most t edits away from the source, in
\* row order, every occurrence kept
CellsWithin(threshold) ==
    LET near == Ball(original[1].val.s, threshold.half \div 2)
    IN  SelectSeq(CityColumn, LAMBDA c : c.s \in near)

====
